---- MODULE Spec2Model ----
(***************************************************************************)
(* A model of the mtxchat session core (apps/mtxchat/src/lib.rs): the      *)
(* key/value store kept as one file per key in the "mtxchat" directory,    *)
(* the MtxChat session object with its cached fields, and the background   *)
(* long-poll threads that listen() spawns; and of the list UI of the vault  *)
(* (apps/vault/src/ux/framework.rs).                                       *)
(*                                                                         *)
(* Strings are sequences of one-character strings, so that starts_with,    *)
(* len and concatenation are computed as the code computes them.           *)
(***************************************************************************)
EXTENDS Integers, Sequences, FiniteSets, TLC

VARIABLES
    fs,            \* the files of the dictionary: key -> file content
    dict,          \* whether the dictionary directory exists
    self,          \* the fields of the MtxChat object
    threads,       \* the spawned poll threads still running, oldest first
    calls,         \* the Transport calls issued by the last operation
    op,            \* the last operation and its arguments
    ret,           \* what the last operation returned
    panicked,      \* the process died in an expect()
    faults,        \* the file operations that have failed so far
    HOSTED_MODE,   \* the build: cfg(not(target_os = "xous"))
    vault          \* the vault process: its build and the fields of VaultUx

vars == <<fs, dict, self, threads, calls, op, ret, panicked, faults, HOSTED_MODE,
          vault>>

-----------------------------------------------------------------------------
(* String constants of the crate. *)

MTXCHAT_DICT == <<"m","t","x","c","h","a","t">>
FILTER_KEY == <<"_","f","i","l","t","e","r">>
PASSWORD_KEY == <<"p","a","s","s","w","o","r","d">>
ROOM_ID_KEY == <<"_","r","o","o","m","_","i","d">>
ROOM_NAME_KEY == <<"r","o","o","m","_","n","a","m","e">>
ROOM_DOMAIN_KEY == <<"r","o","o","m","_","d","o","m","a","i","n">>
SINCE_KEY == <<"_","s","i","n","c","e">>
TOKEN_KEY == <<"_","t","o","k","e","n">>
USER_ID_KEY == <<"_","u","s","e","r","_","i","d">>
USER_NAME_KEY == <<"u","s","e","r","_","n","a","m","e">>
USER_DOMAIN_KEY == <<"u","s","e","r","_","d","o","m","a","i","n">>
HTTPS == <<"h","t","t","p","s",":","/","/">>
DOMAIN_MATRIX == <<"m","a","t","r","i","x",".","o","r","g">>
EMPTY == << >>
HIDE_STR == <<"*","*","*","*","*">>

(* The prefix that set and unset refuse. *)
RESERVED_PREFIX == <<"_","_">>

(* Keys used as inputs besides the crate's own: one ordinary key and two    *)
(* keys beginning with the reserved prefix.                                 *)
OTHER_KEY == <<"k">>
RESERVED_KEY == <<"_","_","x">>
RESERVED_ONLY_KEY == <<"_","_">>

ProgramKeys ==
    { FILTER_KEY, PASSWORD_KEY, ROOM_ID_KEY, ROOM_NAME_KEY, ROOM_DOMAIN_KEY,
      SINCE_KEY, TOKEN_KEY, USER_ID_KEY, USER_NAME_KEY, USER_DOMAIN_KEY }

Keys == ProgramKeys \cup { OTHER_KEY, RESERVED_KEY, RESERVED_ONLY_KEY }

-----------------------------------------------------------------------------
(* Strings. *)

starts_with(s, p) == Len(s) >= Len(p) /\ SubSeq(s, 1, Len(p)) = p

(* Option<String> *)
None == [some |-> FALSE, val |-> EMPTY]
Some(v) == [some |-> TRUE, val |-> v]

(* A return value: a tag and, where the operation returns a string, the string. *)
Ret(tag, v) == [tag |-> tag, val |-> v]

-----------------------------------------------------------------------------
(* The world an operation runs in and changes: the files, the object, the   *)
(* threads it spawned, the Transport calls it made, and the outcomes the    *)
(* file system will give to its next file operations (io, consumed from the *)
(* head: TRUE the operation succeeds, FALSE it fails), and the answers      *)
(* Transport will give to the calls of this operation (net).                *)

(* Transport answering nothing that is asked. *)
NoNet ==
    [ whoami |-> None, login_type |-> FALSE, auth |-> None, room_id |-> None,
      filter |-> None ]

World(io, net) ==
    [ fs |-> fs, dict |-> dict, self |-> self, threads |-> threads,
      calls |-> << >>, io |-> io, net |-> net, panicked |-> FALSE,
      failed |-> 0 ]

NextIo(w) == IF w.io = << >> THEN TRUE ELSE Head(w.io)
PopIo(w) ==
    [w EXCEPT !.io = IF w.io = << >> THEN << >> ELSE Tail(w.io),
              !.failed = IF NextIo(w) THEN w.failed ELSE w.failed + 1]

(* The file of key, removed. *)
RemoveFile(files, key) == [k \in (DOMAIN files) \ {key} |-> files[k]]

(* The file of key, created or truncated, holding content. *)
WriteFile(files, key, content) ==
    [k \in (DOMAIN files) \cup {key} |-> IF k = key THEN content ELSE files[k]]

-----------------------------------------------------------------------------
(* MtxChat::new: the object's fields. *)

NewSelf ==
    [ user_id |-> EMPTY, user_name |-> EMPTY, user_domain |-> DOMAIN_MATRIX,
      token |-> EMPTY, logged_in |-> FALSE, room_id |-> EMPTY,
      room_name |-> EMPTY, room_domain |-> EMPTY, filter |-> EMPTY,
      since |-> EMPTY, wifi_connected |-> FALSE, listening |-> FALSE ]

-----------------------------------------------------------------------------
(* ConfigStore: set, unset, get. *)

(* The match of set that updates the cached value of key. *)
set_cache(me, key, value) ==
    CASE key = FILTER_KEY -> [me EXCEPT !.filter = value]
      [] key = PASSWORD_KEY -> me
      [] key = ROOM_ID_KEY -> [me EXCEPT !.room_id = value]
      [] key = ROOM_NAME_KEY -> [me EXCEPT !.room_name = value]
      [] key = ROOM_DOMAIN_KEY -> [me EXCEPT !.room_domain = value]
      [] key = SINCE_KEY -> [me EXCEPT !.since = value]
      [] key = USER_NAME_KEY -> [me EXCEPT !.user_name = value]
      [] key = USER_DOMAIN_KEY -> [me EXCEPT !.user_domain = value]
      [] key = USER_ID_KEY -> [me EXCEPT !.user_id = value]
      [] OTHER -> me

(* The match of unset that clears the cached value of key (room_name has no *)
(* arm).                                                                    *)
unset_cache(me, key) ==
    CASE key = FILTER_KEY -> [me EXCEPT !.filter = EMPTY]
      [] key = ROOM_ID_KEY -> [me EXCEPT !.room_id = EMPTY]
      [] key = ROOM_DOMAIN_KEY -> [me EXCEPT !.room_domain = EMPTY]
      [] key = SINCE_KEY -> [me EXCEPT !.since = EMPTY]
      [] key = USER_DOMAIN_KEY -> [me EXCEPT !.user_domain = EMPTY]
      [] key = USER_ID_KEY -> [me EXCEPT !.user_id = EMPTY]
      [] key = USER_NAME_KEY -> [me EXCEPT !.user_name = EMPTY]
      [] OTHER -> me

(* Mutants of is_reserved: one underscore taken for the prefix; the prefix  *)
(* compared with the whole key.                                             *)
is_reserved_one_underscore(key) == starts_with(key, <<"_">>)
is_reserved_whole_key(key) == key = RESERVED_PREFIX

(* The key check that set and unset start with. *)
is_reserved(key) == starts_with(key, RESERVED_PREFIX)

(* metadata(dict).is_ok(), else create_dir_all(dict)?: the world with the   *)
(* directory made, or with dict still FALSE when making it failed.          *)
ensure_dict(w) ==
    IF w.dict THEN w ELSE [PopIo(w) EXCEPT !.dict = NextIo(w)]

(* File::create(keypath)?.write_all(value)?: [w, ok]. A failed create       *)
(* leaves the files as they were; a failed write_all leaves the file        *)
(* created (truncated) and empty. An empty value is written by no write.    *)
write_key(w, key, value) ==
    IF ~NextIo(w) THEN [w |-> PopIo(w), ok |-> FALSE]
    ELSE LET w1 == [PopIo(w) EXCEPT !.fs = WriteFile(w.fs, key, EMPTY)]
         IN IF value = EMPTY THEN [w |-> w1, ok |-> TRUE]
            ELSE IF ~NextIo(w1) THEN [w |-> PopIo(w1), ok |-> FALSE]
            ELSE [w |-> [PopIo(w1) EXCEPT !.fs = WriteFile(w1.fs, key, value)],
                  ok |-> TRUE]

(* Mutant of set: the cache is updated before the file is written. *)
set_cache_first(w, key, value) ==
    IF is_reserved(key) THEN [w |-> w, res |-> "PermissionDenied"]
    ELSE LET w0 == [w EXCEPT !.self = set_cache(w.self, key, value)]
             w1 == ensure_dict(w0)
         IN IF ~w1.dict THEN [w |-> w1, res |-> "IoError"]
            ELSE LET wr == write_key(w1, key, value)
                 IN IF ~wr.ok THEN [w |-> wr.w, res |-> "IoError"]
                    ELSE [w |-> wr.w, res |-> "Ok"]

(* MtxChat::set: [w, res], res one of Ok, PermissionDenied, IoError. *)
set(w, key, value) ==
    IF is_reserved(key) THEN [w |-> w, res |-> "PermissionDenied"]
    ELSE LET w1 == ensure_dict(w)
         IN IF ~w1.dict THEN [w |-> w1, res |-> "IoError"]
            ELSE LET wr == write_key(w1, key, value)
                 IN IF ~wr.ok THEN [w |-> wr.w, res |-> "IoError"]
                    ELSE [w |-> [wr.w EXCEPT !.self = set_cache(wr.w.self, key, value)],
                          res |-> "Ok"]

(* MtxChat::set_debug: [w, ok]. *)
set_debug(w, key, value) ==
    LET r == set(w, key, value) IN [w |-> r.w, ok |-> r.res = "Ok"]

(* if metadata(keypath).is_ok() { remove_file(keypath)? }: [w, ok]. *)
remove_key(w, key) ==
    IF key \notin DOMAIN w.fs THEN [w |-> w, ok |-> TRUE]
    ELSE IF ~NextIo(w) THEN [w |-> PopIo(w), ok |-> FALSE]
    ELSE [w |-> [PopIo(w) EXCEPT !.fs = RemoveFile(w.fs, key)], ok |-> TRUE]

(* Mutant of unset: a key with no file is an error. *)
unset_absent_is_error(w, key) ==
    IF is_reserved(key) THEN [w |-> w, res |-> "PermissionDenied"]
    ELSE LET w1 == ensure_dict(w)
         IN IF ~w1.dict THEN [w |-> w1, res |-> "IoError"]
            ELSE IF key \notin DOMAIN w1.fs THEN [w |-> w1, res |-> "NotFound"]
            ELSE LET rm == remove_key(w1, key)
                 IN IF ~rm.ok THEN [w |-> rm.w, res |-> "IoError"]
                    ELSE [w |-> [rm.w EXCEPT !.self = unset_cache(rm.w.self, key)],
                          res |-> "Ok"]

(* MtxChat::unset: [w, res]. *)
unset(w, key) ==
    IF is_reserved(key) THEN [w |-> w, res |-> "PermissionDenied"]
    ELSE LET w1 == ensure_dict(w)
         IN IF ~w1.dict THEN [w |-> w1, res |-> "IoError"]
            ELSE LET rm == remove_key(w1, key)
                 IN IF ~rm.ok THEN [w |-> rm.w, res |-> "IoError"]
                    ELSE [w |-> [rm.w EXCEPT !.self = unset_cache(rm.w.self, key)],
                          res |-> "Ok"]

(* MtxChat::unset_debug: [w, ok]. *)
unset_debug(w, key) ==
    LET r == unset(w, key) IN [w |-> r.w, ok |-> r.res = "Ok"]

(* Mutant of get: a missing file is an error. *)
get_missing_is_error(w, key) ==
    IF key \in DOMAIN w.fs
    THEN [res |-> "Ok", opt |-> Some(w.fs[key])]
    ELSE [res |-> "NotFound", opt |-> None]

(* MtxChat::get: [res, opt]; File::open failing (no such file) is Ok(None). *)
get(w, key) ==
    IF key \in DOMAIN w.fs
    THEN [res |-> "Ok", opt |-> Some(w.fs[key])]
    ELSE [res |-> "Ok", opt |-> None]

(* MtxChat::get_or: the string. *)
get_or(w, key, default) ==
    LET g == get(w, key)
    IN IF g.res = "Ok" /\ ~g.opt.some THEN default
       ELSE IF g.res = "Ok" THEN g.opt.val
       ELSE default

-----------------------------------------------------------------------------
(* Transport calls, recorded with their arguments. *)

(* What Transport answers to the call of fn, as an Option: the caller's      *)
(* `if let Some(..)` or `if` takes the branch of some.                      *)
Answer(net, fn) ==
    CASE fn = "whoami" -> net.whoami
      [] fn = "get_login_type" -> [some |-> net.login_type, val |-> EMPTY]
      [] fn = "authenticate_user" -> net.auth
      [] fn = "get_room_id" -> net.room_id
      [] fn = "get_filter" -> net.filter

Call(w, fn, args) ==
    [w EXCEPT !.calls = Append(w.calls, [fn |-> fn, args |-> args,
                                         ans |-> Answer(w.net, fn)])]

(* write!(server, "{}{}", HTTPS, get_or(key, DOMAIN_MATRIX)) *)
server_of(w, key) == HTTPS \o get_or(w, key, DOMAIN_MATRIX)

-----------------------------------------------------------------------------
(* SessionManager. *)

(* Mutant of login: the password path is taken also after the identity      *)
(* check has succeeded.                                                     *)
login_always_authenticates(w) ==
    LET token == get_or(w, TOKEN_KEY, EMPTY)
        w0 == [w EXCEPT !.self.token = token, !.self.logged_in = FALSE]
        server == server_of(w0, USER_DOMAIN_KEY)
        w1 == IF Len(token) > 0
              THEN LET c == Call(w0, "whoami", <<server, token>>)
                   IN IF c.net.whoami.some
                      THEN [c EXCEPT !.self.user_id = c.net.whoami.val,
                                     !.self.logged_in = TRUE]
                      ELSE c
              ELSE w0
        w2 == IF TRUE
              THEN LET c == Call(w1, "get_login_type", <<server>>)
                   IN IF c.net.login_type
                      THEN LET user_id == get_or(c, USER_ID_KEY, USER_ID_KEY)
                               password == get_or(c, PASSWORD_KEY, EMPTY)
                               a == Call(c, "authenticate_user",
                                         <<server, user_id, password>>)
                           IN IF a.net.auth.some
                              THEN LET s == set_debug(a, TOKEN_KEY, a.net.auth.val)
                                   IN [s.w EXCEPT !.self.user_id = user_id,
                                                  !.self.logged_in = TRUE]
                              ELSE a
                      ELSE c
              ELSE w1
    IN [w |-> w2, ok |-> w2.self.logged_in]

(* Mutant of login: authenticate is called whatever the login type is. *)
login_type_ignored(w) ==
    LET token == get_or(w, TOKEN_KEY, EMPTY)
        w0 == [w EXCEPT !.self.token = token, !.self.logged_in = FALSE]
        server == server_of(w0, USER_DOMAIN_KEY)
        w1 == IF Len(token) > 0
              THEN LET c == Call(w0, "whoami", <<server, token>>)
                   IN IF c.net.whoami.some
                      THEN [c EXCEPT !.self.user_id = c.net.whoami.val,
                                     !.self.logged_in = TRUE]
                      ELSE c
              ELSE w0
        w2 == IF ~w1.self.logged_in
              THEN LET c == Call(w1, "get_login_type", <<server>>)
                   IN IF TRUE
                      THEN LET user_id == get_or(c, USER_ID_KEY, USER_ID_KEY)
                               password == get_or(c, PASSWORD_KEY, EMPTY)
                               a == Call(c, "authenticate_user",
                                         <<server, user_id, password>>)
                           IN IF a.net.auth.some
                              THEN LET s == set_debug(a, TOKEN_KEY, a.net.auth.val)
                                   IN [s.w EXCEPT !.self.user_id = user_id,
                                                  !.self.logged_in = TRUE]
                              ELSE a
                      ELSE c
              ELSE w1
    IN [w |-> w2, ok |-> w2.self.logged_in]

(* MtxChat::login: [w, ok]. *)
login(w) ==
    LET token == get_or(w, TOKEN_KEY, EMPTY)
        w0 == [w EXCEPT !.self.token = token, !.self.logged_in = FALSE]
        server == server_of(w0, USER_DOMAIN_KEY)
        w1 == IF Len(token) > 0
              THEN LET c == Call(w0, "whoami", <<server, token>>)
                   IN IF c.net.whoami.some
                      THEN [c EXCEPT !.self.user_id = c.net.whoami.val,
                                     !.self.logged_in = TRUE]
                      ELSE c
              ELSE w0
        w2 == IF ~w1.self.logged_in
              THEN LET c == Call(w1, "get_login_type", <<server>>)
                   IN IF c.net.login_type
                      THEN LET user_id == get_or(c, USER_ID_KEY, USER_ID_KEY)
                               password == get_or(c, PASSWORD_KEY, EMPTY)
                               a == Call(c, "authenticate_user",
                                         <<server, user_id, password>>)
                           IN IF a.net.auth.some
                              THEN LET s == set_debug(a, TOKEN_KEY, a.net.auth.val)
                                   IN [s.w EXCEPT !.self.user_id = user_id,
                                                  !.self.logged_in = TRUE]
                              ELSE a
                      ELSE c
              ELSE w1
    IN [w |-> w2, ok |-> w2.self.logged_in]

(* set(key, value).expect(..): the world after the set, panicked when the   *)
(* set returned an error; nothing runs after a panic.                       *)
set_expect(w, key, value) ==
    IF w.panicked THEN w
    ELSE LET r == set(w, key, value)
         IN IF r.res = "Ok" THEN r.w ELSE [r.w EXCEPT !.panicked = TRUE]

(* write!(user_id, "@{}:{}", user_name, user_domain) *)
format_user_id(user_name, user_domain) == <<"@">> \o user_name \o <<":">> \o user_domain

(* Mutant of login_modal: the password field is written whatever it holds. *)
login_modal_placeholder_written(w, payloads) ==
    IF ~payloads.some THEN w
    ELSE LET w1 == unset_debug(w, TOKEN_KEY).w
             w2 == set_expect(w1, USER_NAME_KEY, payloads.content[1])
             w3 == set_expect(w2, USER_DOMAIN_KEY, payloads.content[2])
             w4 == set_expect(w3, PASSWORD_KEY, payloads.content[3])
             user_id == format_user_id(w4.self.user_name, w4.self.user_domain)
         IN set_expect(w4, USER_ID_KEY, user_id)

(* MtxChat::login_modal, the prompt answering payloads (some: confirmed,    *)
(* with the three field contents) or a cancellation: the world.             *)
login_modal(w, payloads) ==
    IF ~payloads.some THEN w
    ELSE LET w1 == unset_debug(w, TOKEN_KEY).w
             w2 == set_expect(w1, USER_NAME_KEY, payloads.content[1])
             w3 == set_expect(w2, USER_DOMAIN_KEY, payloads.content[2])
             w4 == IF payloads.content[3] # HIDE_STR
                   THEN set_expect(w3, PASSWORD_KEY, payloads.content[3])
                   ELSE w3
             user_id == format_user_id(w4.self.user_name, w4.self.user_domain)
         IN set_expect(w4, USER_ID_KEY, user_id)

-----------------------------------------------------------------------------
(* RoomResolver and FilterResolver. *)

(* write!(room, "#{}:{}", name, get_or(ROOM_DOMAIN_KEY, DOMAIN_MATRIX)) *)
format_room(w) ==
    <<"#">> \o get_or(w, ROOM_NAME_KEY, EMPTY) \o <<":">>
        \o get_or(w, ROOM_DOMAIN_KEY, DOMAIN_MATRIX)

(* Mutant of get_room_id: a cached room id is looked up again. *)
get_room_id_without_fast_path(w) ==
    IF Len(w.self.room_name) = 0 THEN [w |-> w, ok |-> FALSE]
    ELSE IF Len(w.self.room_domain) = 0 THEN [w |-> w, ok |-> FALSE]
    ELSE LET room == format_room(w)
             server == server_of(w, USER_DOMAIN_KEY)
             c == Call(w, "get_room_id", <<server, room, w.self.token>>)
         IN IF c.net.room_id.some
            THEN [w |-> set_debug(c, ROOM_ID_KEY, c.net.room_id.val).w, ok |-> TRUE]
            ELSE [w |-> c, ok |-> FALSE]

(* Mutant of get_room_id: a failed lookup stores the empty room id. *)
get_room_id_failure_stored(w) ==
    IF Len(w.self.room_id) > 0 THEN [w |-> w, ok |-> TRUE]
    ELSE IF Len(w.self.room_name) = 0 THEN [w |-> w, ok |-> FALSE]
    ELSE IF Len(w.self.room_domain) = 0 THEN [w |-> w, ok |-> FALSE]
    ELSE LET room == format_room(w)
             server == server_of(w, USER_DOMAIN_KEY)
             c == Call(w, "get_room_id", <<server, room, w.self.token>>)
         IN IF c.net.room_id.some
            THEN [w |-> set_debug(c, ROOM_ID_KEY, c.net.room_id.val).w, ok |-> TRUE]
            ELSE [w |-> set_debug(c, ROOM_ID_KEY, EMPTY).w, ok |-> FALSE]

(* MtxChat::get_room_id: [w, ok]. *)
get_room_id(w) ==
    IF Len(w.self.room_id) > 0 THEN [w |-> w, ok |-> TRUE]
    ELSE IF Len(w.self.room_name) = 0 THEN [w |-> w, ok |-> FALSE]
    ELSE IF Len(w.self.room_domain) = 0 THEN [w |-> w, ok |-> FALSE]
    ELSE LET room == format_room(w)
             server == server_of(w, USER_DOMAIN_KEY)
             c == Call(w, "get_room_id", <<server, room, w.self.token>>)
         IN IF c.net.room_id.some
            THEN [w |-> set_debug(c, ROOM_ID_KEY, c.net.room_id.val).w, ok |-> TRUE]
            ELSE [w |-> c, ok |-> FALSE]

(* MtxChat::room_modal, the prompt answering payloads (some: confirmed,     *)
(* with the two field contents) or a cancellation: the world.               *)
(* Mutant of room_modal: the room id, the cursor and the filter are cleared *)
(* before the form is confirmed.                                            *)
room_modal_clears_before_prompt(w, payloads) ==
    LET w1 == unset_debug(w, ROOM_ID_KEY).w
        w2 == unset_debug(w1, SINCE_KEY).w
        w3 == unset_debug(w2, FILTER_KEY).w
    IN IF ~payloads.some THEN w3
       ELSE LET w4 == set_expect(w3, ROOM_NAME_KEY, payloads.content[1])
            IN set_expect(w4, ROOM_DOMAIN_KEY, payloads.content[2])

room_modal(w, payloads) ==
    IF ~payloads.some THEN w
    ELSE LET w1 == unset_debug(w, ROOM_ID_KEY).w
             w2 == unset_debug(w1, SINCE_KEY).w
             w3 == unset_debug(w2, FILTER_KEY).w
             w4 == set_expect(w3, ROOM_NAME_KEY, payloads.content[1])
         IN set_expect(w4, ROOM_DOMAIN_KEY, payloads.content[2])

(* The condition of the `if` of get_filter that binds new_filter: the        *)
(* Transport filter resolution, resolve_filter(server, token, room_id) ->   *)
(* Option<filter_id>.                                                       *)
resolve_filter(w, user_server) ==
    Call(w, "get_filter", <<user_server, w.self.token, w.self.room_id>>)

(* MtxChat::get_filter: [w, ok]. *)
get_filter(w) ==
    IF Len(w.self.filter) > 0 THEN [w |-> w, ok |-> TRUE]
    ELSE LET user_server == server_of(w, USER_DOMAIN_KEY)
             c == resolve_filter(w, user_server)
         IN IF c.net.filter.some
            THEN [w |-> set_debug(c, FILTER_KEY, c.net.filter.val).w, ok |-> TRUE]
            ELSE [w |-> c, ok |-> FALSE]

-----------------------------------------------------------------------------
(* SyncLoop. *)

(* The thread listen() spawns: the strings cloned for the closure. *)
spawn(w) ==
    [ server |-> server_of(w, ROOM_DOMAIN_KEY), filter |-> w.self.filter,
      since |-> w.self.since, room_id |-> w.self.room_id,
      token |-> w.self.token ]

(* Mutant of listen: the listening flag is not looked at. *)
listen_without_flag_check(w) ==
    IF ~w.self.logged_in THEN [w |-> w, out |-> "not_logged_in"]
    ELSE LET r == IF Len(w.self.room_id) = 0 THEN get_room_id(w)
                  ELSE [w |-> w, ok |-> TRUE]
         IN IF ~r.ok THEN [w |-> r.w, out |-> "no_room"]
            ELSE LET f == IF Len(r.w.self.filter) = 0 THEN get_filter(r.w)
                          ELSE [w |-> r.w, ok |-> TRUE]
                 IN IF ~f.ok THEN [w |-> f.w, out |-> "no_filter"]
                    ELSE LET w1 == [f.w EXCEPT !.self.listening = TRUE]
                         IN [w |-> [w1 EXCEPT !.threads = Append(w1.threads, spawn(w1))],
                             out |-> "started"]

(* Mutant of listen: the session is not asked whether it is logged in. *)
listen_without_login_check(w) ==
    IF w.self.listening THEN [w |-> w, out |-> "already_listening"]
    ELSE LET r == IF Len(w.self.room_id) = 0 THEN get_room_id(w)
                  ELSE [w |-> w, ok |-> TRUE]
         IN IF ~r.ok THEN [w |-> r.w, out |-> "no_room"]
            ELSE LET f == IF Len(r.w.self.filter) = 0 THEN get_filter(r.w)
                          ELSE [w |-> r.w, ok |-> TRUE]
                 IN IF ~f.ok THEN [w |-> f.w, out |-> "no_filter"]
                    ELSE LET w1 == [f.w EXCEPT !.self.listening = TRUE]
                         IN [w |-> [w1 EXCEPT !.threads = Append(w1.threads, spawn(w1))],
                             out |-> "started"]

(* Mutant of listen: the filter is resolved whatever get_room_id returned. *)
listen_room_result_ignored(w) ==
    IF w.self.listening THEN [w |-> w, out |-> "already_listening"]
    ELSE IF ~w.self.logged_in THEN [w |-> w, out |-> "not_logged_in"]
    ELSE LET r == IF Len(w.self.room_id) = 0 THEN get_room_id(w)
                  ELSE [w |-> w, ok |-> TRUE]
         IN LET f == IF Len(r.w.self.filter) = 0 THEN get_filter(r.w)
                     ELSE [w |-> r.w, ok |-> TRUE]
            IN IF ~f.ok THEN [w |-> f.w, out |-> "no_filter"]
               ELSE LET w1 == [f.w EXCEPT !.self.listening = TRUE]
                    IN [w |-> [w1 EXCEPT !.threads = Append(w1.threads, spawn(w1))],
                        out |-> "started"]

(* MtxChat::listen: [w, out], out the branch it left by. *)
listen(w) ==
    IF w.self.listening THEN [w |-> w, out |-> "already_listening"]
    ELSE IF ~w.self.logged_in THEN [w |-> w, out |-> "not_logged_in"]
    ELSE LET r == IF Len(w.self.room_id) = 0 THEN get_room_id(w)
                  ELSE [w |-> w, ok |-> TRUE]
         IN IF ~r.ok THEN [w |-> r.w, out |-> "no_room"]
            ELSE LET f == IF Len(r.w.self.filter) = 0 THEN get_filter(r.w)
                          ELSE [w |-> r.w, ok |-> TRUE]
                 IN IF ~f.ok THEN [w |-> f.w, out |-> "no_filter"]
                    ELSE LET w1 == [f.w EXCEPT !.self.listening = TRUE]
                         IN [w |-> [w1 EXCEPT !.threads = Append(w1.threads, spawn(w1))],
                             out |-> "started"]

(* Mutant of listen_over: the restart does not ask for the network. *)
listen_over_without_network_check(w, since, hosted) ==
    LET w0 == [w EXCEPT !.self.listening = FALSE]
    IN IF Len(since) > 0
       THEN LET w1 == set_debug(w0, SINCE_KEY, since).w
            IN IF w1.self.logged_in
               THEN listen(w1)
               ELSE [w |-> w1, out |-> "no_restart"]
       ELSE [w |-> w0, out |-> "empty_cursor"]

(* Mutant of listen_over: the flag is cleared only for a cursor. *)
listen_over_flag_kept(w, since, hosted) ==
    IF Len(since) > 0
    THEN LET w1 == set_debug([w EXCEPT !.self.listening = FALSE], SINCE_KEY, since).w
         IN IF w1.self.logged_in /\ (hosted \/ w1.self.wifi_connected)
            THEN listen(w1)
            ELSE [w |-> w1, out |-> "no_restart"]
    ELSE [w |-> w, out |-> "empty_cursor"]

(* MtxChat::listen_over: [w, out], out "empty_cursor", "no_restart" or the  *)
(* branch by which the listen() it called left.                             *)
listen_over(w, since, hosted) ==
    LET w0 == [w EXCEPT !.self.listening = FALSE]
    IN IF Len(since) > 0
       THEN LET w1 == set_debug(w0, SINCE_KEY, since).w
            IN IF w1.self.logged_in /\ (hosted \/ w1.self.wifi_connected)
               THEN listen(w1)
               ELSE [w |-> w1, out |-> "no_restart"]
       ELSE [w |-> w0, out |-> "empty_cursor"]

-----------------------------------------------------------------------------
(* The inputs of the operations. *)

(* The most threads alive at once; an operation that would spawn one more   *)
(* is not taken.                                                            *)
MaxThreads == 2

(* The most file operations that fail in one run of the system. *)
MaxFaults == 1

(* The outcomes of the file operations of one call: n of them, in order,    *)
(* FALSE where the file operation fails.                                    *)
IoSeqs(n) ==
    { [i \in 1..n |-> i \notin F] :
        F \in { S \in SUBSET (1..n) : Cardinality(S) <= MaxFaults } }

(* The outcomes for the operations, by the most file operations each makes. *)
Io2 == IoSeqs(2)
Io3 == IoSeqs(3)
Io6 == IoSeqs(6)
Io8 == IoSeqs(8)
Io9 == IoSeqs(9)
Io10 == IoSeqs(10)

(* No file operation fails once MaxFaults have. *)
Io(ios) == IF faults >= MaxFaults THEN { << >> } ELSE ios

UserNames == { <<"u">> }
UserDomains == { <<"d">> }
Passwords == { <<"p">>, <<"q">>, HIDE_STR }
RoomNames == { <<"n">> }
RoomDomains == { <<"d">> }
Tokens == { <<"t">> }
UserIds == { <<"@","u",":","d">> }
RoomIds == { <<"!","r">> }
Filters == { <<"f">> }
Cursors == { EMPTY, <<"s">> }
Messages == { <<"m">> }

(* The keys and values the caller gives to set, unset, get and get_or. *)
CallerKeys ==
    { ROOM_ID_KEY, ROOM_NAME_KEY, PASSWORD_KEY, OTHER_KEY, RESERVED_KEY,
      RESERVED_ONLY_KEY }
CallerValues == { EMPTY, <<"n">> }

Options(S) == { None } \cup { Some(v) : v \in S }

(* The answers of Transport to the calls of one operation: of login, of    *)
(* get_room_id, of get_filter, and of listen, which may call both.          *)
LoginNets ==
    { [NoNet EXCEPT !.whoami = a, !.login_type = b, !.auth = c] :
        a \in Options(UserIds), b \in BOOLEAN, c \in Options(Tokens) }
RoomNets == { [NoNet EXCEPT !.room_id = a] : a \in Options(RoomIds) }
FilterNets == { [NoNet EXCEPT !.filter = a] : a \in Options(Filters) }
ListenNets ==
    { [NoNet EXCEPT !.room_id = a, !.filter = b] :
        a \in Options(RoomIds), b \in Options(Filters) }

(* What the prompt returns: the contents of the fields, or a cancellation. *)
Payloads(fields) ==
    { [some |-> FALSE, content |-> << >>] }
        \cup { [some |-> TRUE, content |-> c] : c \in fields }

-----------------------------------------------------------------------------
(* The state machine. *)

-----------------------------------------------------------------------------
(* The vault list UI (apps/vault/src/ux/framework.rs): the item list, the   *)
(* filtered list and the selection index of VaultUx.                        *)
(*                                                                          *)
(* A usize is kept as an integer in which a negative n stands for 2^w + n,  *)
(* the value a wrapped subtraction leaves; every value of the model is      *)
(* within a few hundred of 0 or of 2^w, so the encoding is exact for the    *)
(* 32-bit usize of the target as for the 64-bit one of a hosted build.      *)

ListItem(name, extra) == [name |-> name, extra |-> extra]

FakeData0 ==
    << ListItem(<<"t","e","s","t",".","c","o","m">>,
                "Used 5 mins ago"),
       ListItem(<<"g","o","o","g","l","e",".","c","o","m">>,
                "Never used"),
       ListItem(<<"m","y"," ","a","p","p">>,
                "Used 2 hours ago"),
       ListItem(<<"U+1F48E","U+1F64C">>,
                "Used 2 days ago"),
       ListItem(<<"U+767E","U+5EA6">>,
                "Used 1 month ago"),
       ListItem(<<"d","u","p","l","i","c","a","t","e",".","c","o","m">>,
                "Used 1 week ago"),
       ListItem(<<"d","u","p","l","i","c","a","t","e",".","c","o","m">>,
                "Used 8 mins ago"),
       ListItem(<<"a","m","a","z","o","n",".","c","o","m">>,
                "Used 3 days ago"),
       ListItem(<<"z","i","g","g","y","z","i","g","g","y","z","i","g","g",
                    "y","l","o","n","g","d","o","m","a","i","n",".","c","o",
                    "m">>,
                "Never used"),
       ListItem(<<"a","n","o","t","h","e","r"," ","l","o","n","g"," ","d",
                    "o","m","a","i","n"," ","n","a","m","e",".","c","o","m"
                    >>,
                "Used 2 months ago"),
       ListItem(<<"b","u","n","n","i","e","s","t","u","d","i","o","s",".",
                    "c","o","m">>,
                "Used 30 mins ago"),
       ListItem(<<"g","i","t","h","u","b",".","c","o","m">>,
                "Used 6 hours ago") >>

FakeData1 ==
    << ListItem(<<"g","m","a","i","l",".","c","o","m">>,
                "162 321"),
       ListItem(<<"g","o","o","g","l","e",".","c","o","m">>,
                "445 768"),
       ListItem(<<"m","y"," ","U+56FE","U+7247"," ","a","p","p">>,
                "982 111"),
       ListItem(<<"U+1F355","U+1F354","U+1F35F","U+1F32D">>,
                "056 182"),
       ListItem(<<"U+767E","U+5EA6">>,
                "111 111"),
       ListItem(<<"d","u","p","l","i","c","a","t","e",".","c","o","m">>,
                "462 124"),
       ListItem(<<"d","u","p","l","i","c","a","t","e",".","c","o","m">>,
                "462 124"),
       ListItem(<<"a","m","a","z","o","n",".","c","o","m">>,
                "842 012"),
       ListItem(<<"z","i","g","g","y","z","i","g","g","y","z","i","g","g",
                    "y","l","o","n","g","d","o","m","a","i","n",".","c","o",
                    "m">>,
                "462 212"),
       ListItem(<<"g","i","t","h","u","b",".","c","o","m">>,
                "Used 6 hours ago") >>

CharOrder ==
    << " ", ".", "a", "b", "c", "d", "e", "g", "h", "i", "l", "m", "n", "o",
            "p", "r", "s", "t", "u", "x", "y", "z", "U+56FE", "U+5EA6",
           "U+7247", "U+767E", "U+1F32D", "U+1F354", "U+1F355", "U+1F35F",
           "U+1F48E", "U+1F64C" >>

(* The position of a character in the byte order of its UTF-8 encoding.     *)
CodeOrder(c) == CHOOSE i \in 1..Len(CharOrder) : CharOrder[i] = c

(* str::cmp(a, b) = Less. *)
name_lt(a, b) ==
    LET n == IF Len(a) < Len(b) THEN Len(a) ELSE Len(b)
        diffs == { i \in 1..n : a[i] # b[i] }
    IN IF diffs = {} THEN Len(a) < Len(b)
       ELSE LET i == CHOOSE d \in diffs : \A e \in diffs : d <= e
            IN CodeOrder(a[i]) < CodeOrder(b[i])

(* Vec::sort with ListItem::cmp: by name, equal names in their old order.   *)
RECURSIVE sort(_)
sort(items) ==
    IF items = << >> THEN << >>
    ELSE LET n == Len(items)
             x == items[n]
             s == sort(SubSeq(items, 1, n - 1))
             k == Cardinality({ i \in 1..Len(s) : ~name_lt(x.name, s[i].name) })
         IN SubSeq(s, 1, k) \o <<x>> \o SubSeq(s, k + 1, Len(s))

(* VaultUx::gen_fake_data: the items pushed for a set. *)
gen_fake_data(data_set) ==
    IF data_set = 0 THEN FakeData0 ELSE FakeData1

(* a < b and a >= b on usize. *)
usize_lt(a, b) == IF (a < 0) = (b < 0) THEN a < b ELSE a >= 0
usize_ge(a, b) == ~usize_lt(a, b)

(* An arithmetic overflow in the vault v: a panic in a build with overflow  *)
(* checks, a wrapped value in one without.                                  *)
Overflow(v) == [v EXCEPT !.overflowed = TRUE, !.panicked = v.overflow_checks]

(* a - b and a + b on usize: [v, val]. *)
usize_sub(v, a, b) ==
    [v |-> IF usize_lt(a, b) THEN Overflow(v) ELSE v, val |-> a - b]
usize_add(v, a, b) ==
    [v |-> IF a < 0 /\ a + b >= 0 THEN Overflow(v) ELSE v, val |-> a + b]

(* The vault before its process starts. *)
NoVault ==
    [ started |-> FALSE, overflow_checks |-> FALSE, overflowed |-> FALSE,
      panicked |-> FALSE,
      ux |-> [ mode |-> "Fido", item_list |-> << >>, filtered_list |-> << >>,
               selection_index |-> 0, items_per_screen |-> 0 ] ]

(* VaultUx::new, in a build with or without overflow checks. *)
VaultNew(overflow_checks, items_per_screen) ==
    [ NoVault EXCEPT !.started = TRUE, !.overflow_checks = overflow_checks,
                     !.ux.items_per_screen = items_per_screen ]

(* VaultUx::filter. *)
filter(v, criteria) ==
    LET v1 == [v EXCEPT !.ux.filtered_list =
                   SelectSeq(v.ux.item_list,
                             LAMBDA item : starts_with(item.name, criteria))]
    IN IF usize_ge(v1.ux.selection_index, Len(v1.ux.filtered_list))
       THEN LET d == usize_sub(v1, Len(v1.ux.filtered_list), 1)
            IN IF d.v.panicked THEN d.v
               ELSE [d.v EXCEPT !.ux.selection_index = d.val]
       ELSE v1

(* VaultUx::set_mode. *)
set_mode(v, mode) ==
    LET data_set == IF mode = "Totp" THEN 1 ELSE 0
        v1 == [v EXCEPT !.ux.item_list = sort(gen_fake_data(data_set)),
                        !.ux.selection_index = 0]
        v2 == filter(v1, EMPTY)
    IN IF v2.panicked THEN v2 ELSE [v2 EXCEPT !.ux.mode = mode]

(* VaultUx::input. *)
input(v, line) == filter(v, line)

(* VaultUx::nav. *)
nav(v, dir) ==
    LET sel == v.ux.selection_index
        len == Len(v.ux.filtered_list)
        page == v.ux.items_per_screen
    IN CASE dir = "Up" ->
              IF usize_lt(0, sel) THEN [v EXCEPT !.ux.selection_index = sel - 1]
              ELSE v
         [] dir = "Down" ->
              LET last == usize_sub(v, len, 1)
              IN IF last.v.panicked THEN last.v
                 ELSE IF usize_lt(sel, last.val)
                 THEN LET n == usize_add(last.v, sel, 1)
                      IN IF n.v.panicked THEN n.v
                         ELSE [n.v EXCEPT !.ux.selection_index = n.val]
                 ELSE last.v
         [] dir = "PageUp" ->
              IF usize_lt(page, sel)
              THEN [v EXCEPT !.ux.selection_index = sel - page]
              ELSE [v EXCEPT !.ux.selection_index = 0]
         [] dir = "PageDown" ->
              LET last == usize_sub(v, len, 1)
                  limit == usize_sub(last.v, last.val, page)
              IN IF last.v.panicked THEN last.v
                 ELSE IF limit.v.panicked THEN limit.v
                 ELSE IF usize_lt(sel, limit.val)
                 THEN LET n == usize_add(limit.v, sel, page)
                      IN IF n.v.panicked THEN n.v
                         ELSE [n.v EXCEPT !.ux.selection_index = n.val]
                 ELSE [limit.v EXCEPT !.ux.selection_index = last.val]

(* Inputs of the vault: the modes, the directions, the lines typed (all     *)
(* items, some items, one item, no item) and the items a screen holds       *)
(* (fewer than a list, and a whole list).                                   *)
VaultModes == { "Fido", "Totp", "Password" }
NavDirs == { "Up", "Down", "PageUp", "PageDown" }
Lines == { EMPTY, <<"g">>, <<"g","o">>, <<"d","u","p">>, <<"x">> }
ItemsPerScreen == { 2, 12 }

MtxChatVars == <<fs, dict, self, threads, calls, op, ret, panicked, faults,
                 HOSTED_MODE>>

(* The vault process starts. *)
VaultStart ==
    /\ ~vault.started
    /\ \E overflow_checks \in BOOLEAN, items_per_screen \in ItemsPerScreen :
          vault' = VaultNew(overflow_checks, items_per_screen)
    /\ UNCHANGED MtxChatVars

SetMode ==
    /\ vault.started /\ ~vault.panicked
    /\ \E mode \in VaultModes : vault' = set_mode(vault, mode)
    /\ UNCHANGED MtxChatVars

Input ==
    /\ vault.started /\ ~vault.panicked
    /\ \E line \in Lines : vault' = input(vault, line)
    /\ UNCHANGED MtxChatVars

(* A selection index that left the list through a wrapped computation is    *)
(* followed up to MaxOff and down to 2^w - MaxOff.                          *)
MaxOff == 14

Nav ==
    /\ vault.started /\ ~vault.panicked
    /\ \E dir \in NavDirs : vault' = nav(vault, dir)
    /\ vault'.ux.selection_index \in (0 - MaxOff)..MaxOff
    /\ UNCHANGED MtxChatVars

TypeOK ==
    /\ dict \in BOOLEAN
    /\ DOMAIN fs \subseteq Keys
    /\ panicked \in BOOLEAN
    /\ HOSTED_MODE \in BOOLEAN
    /\ Len(threads) <= MaxThreads
    /\ faults \in 0..MaxFaults
    /\ vault.started \in BOOLEAN
    /\ vault.ux.selection_index \in Int

Init ==
    /\ fs = << >>
    /\ dict \in BOOLEAN
    /\ self = NewSelf
    /\ threads = << >>
    /\ calls = << >>
    /\ op = [name |-> "new", key |-> EMPTY, value |-> EMPTY]
    /\ ret = Ret("unit", EMPTY)
    /\ panicked = FALSE
    /\ faults = 0
    /\ HOSTED_MODE \in BOOLEAN
    /\ vault = NoVault

(* The world w becomes the state. An action binds the world its operation  *)
(* leaves with \E over a singleton, so that it is computed once.            *)
Commit(w) ==
    /\ Len(w.threads) <= MaxThreads
    /\ faults + w.failed <= MaxFaults
    /\ faults' = faults + w.failed
    /\ fs' = w.fs
    /\ dict' = w.dict
    /\ self' = w.self
    /\ threads' = w.threads
    /\ calls' = w.calls
    /\ panicked' = w.panicked
    /\ UNCHANGED <<HOSTED_MODE, vault>>

Observe(name, key, value, r) ==
    /\ op' = [name |-> name, key |-> key, value |-> value]
    /\ ret' = r

Bool(b) == IF b THEN "true" ELSE "false"

(* The process starts again: MtxChat::new over the files that are there.    *)
(* The threads of the old process are gone with it.                         *)
New ==
    /\ fs' = fs
    /\ dict' \in (IF dict THEN {TRUE} ELSE BOOLEAN)
    /\ self' = NewSelf
    /\ threads' = << >>
    /\ calls' = << >>
    /\ panicked' = FALSE
    /\ UNCHANGED <<faults, HOSTED_MODE, vault>>
    /\ Observe("new", EMPTY, EMPTY, Ret("unit", EMPTY))

Set ==
    /\ ~panicked
    /\ \E key \in CallerKeys, value \in CallerValues, io \in Io(Io3) :
          \E r \in { set(World(io, NoNet), key, value) } :
             Commit(r.w) /\ Observe("set", key, value, Ret(r.res, EMPTY))

Unset ==
    /\ ~panicked
    /\ \E key \in CallerKeys, io \in Io(Io2) :
          \E r \in { unset(World(io, NoNet), key) } :
             Commit(r.w) /\ Observe("unset", key, EMPTY, Ret(r.res, EMPTY))

Get ==
    /\ ~panicked
    /\ \E key \in CallerKeys :
          LET w == World(<< >>, NoNet)
              r == get(w, key)
          IN /\ Commit(w)
             /\ Observe("get", key, EMPTY,
                        Ret(IF r.res # "Ok" THEN r.res
                            ELSE IF r.opt.some THEN "Some" ELSE "None",
                            r.opt.val))

GetOr ==
    /\ ~panicked
    /\ \E key \in CallerKeys, default \in CallerValues :
          LET w == World(<< >>, NoNet)
          IN /\ Commit(w)
             /\ Observe("get_or", key, default, Ret("string", get_or(w, key, default)))

Login ==
    /\ ~panicked
    /\ \E io \in Io(Io3), net \in LoginNets :
          \E r \in { login(World(io, net)) } :
             Commit(r.w) /\ Observe("login", EMPTY, EMPTY, Ret(Bool(r.ok), EMPTY))

LoginModal ==
    /\ ~panicked
    /\ \E io \in Io(Io10),
          payloads \in Payloads(UserNames \X UserDomains \X Passwords) :
          \E w \in { login_modal(World(io, NoNet), payloads) } :
             /\ Commit(w)
             /\ Observe("login_modal", EMPTY,
                        IF payloads.some THEN payloads.content[3] ELSE EMPTY,
                        Ret(IF w.panicked THEN "panic"
                            ELSE IF payloads.some THEN "confirmed" ELSE "cancelled",
                            EMPTY))

GetRoomId ==
    /\ ~panicked
    /\ \E io \in Io(Io3), net \in RoomNets :
          \E r \in { get_room_id(World(io, net)) } :
             Commit(r.w) /\ Observe("get_room_id", EMPTY, EMPTY, Ret(Bool(r.ok), EMPTY))

RoomModal ==
    /\ ~panicked
    /\ \E io \in Io(Io8), payloads \in Payloads(RoomNames \X RoomDomains) :
          \E w \in { room_modal(World(io, NoNet), payloads) } :
             /\ Commit(w)
             /\ Observe("room_modal", EMPTY, EMPTY,
                        Ret(IF w.panicked THEN "panic"
                            ELSE IF payloads.some THEN "confirmed" ELSE "cancelled",
                            EMPTY))

GetFilter ==
    /\ ~panicked
    /\ \E io \in Io(Io3), net \in FilterNets :
          \E r \in { get_filter(World(io, net)) } :
             Commit(r.w) /\ Observe("get_filter", EMPTY, EMPTY, Ret(Bool(r.ok), EMPTY))

Listen ==
    /\ ~panicked
    /\ \E io \in Io(Io6), net \in ListenNets :
          \E r \in { listen(World(io, net)) } :
             Commit(r.w) /\ Observe("listen", EMPTY, EMPTY, Ret(r.out, EMPTY))

ListenOver ==
    /\ ~panicked
    /\ \E since \in Cursors, io \in Io(Io9), net \in ListenNets :
          \E r \in { listen_over(World(io, net), since, HOSTED_MODE) } :
             Commit(r.w) /\ Observe("listen_over", EMPTY, since, Ret(r.out, EMPTY))

(* Mutant of the closure: the cursor is read from the object when the       *)
(* thread runs.                                                             *)
client_sync_thread_reads_session(i, answer) ==
    LET th == threads[i]
    IN /\ threads' = [j \in 1..(Len(threads) - 1) |->
                          IF j < i THEN threads[j] ELSE threads[j + 1]]
       /\ calls' = << [fn |-> "client_sync",
                       args |-> <<th.server, th.filter, self.since, th.room_id,
                                  th.token>>,
                       ans |-> None] >>
       /\ Observe("thread", EMPTY, EMPTY, Ret("unit", EMPTY))
       /\ UNCHANGED <<fs, dict, self, panicked, faults, HOSTED_MODE, vault>>

(* The closure of a spawned thread: client_sync with the strings cloned at  *)
(* spawn. The response it builds from the answer is a local of the closure, *)
(* dropped when the thread ends: nothing is sent and nothing of the object  *)
(* is touched, and no answer is kept with the call.                         *)
client_sync_thread(i, answer) ==
    LET th == threads[i]
        response == IF answer.some THEN answer.val[1] \o answer.val[2] ELSE EMPTY
    IN /\ threads' = [j \in 1..(Len(threads) - 1) |->
                          IF j < i THEN threads[j] ELSE threads[j + 1]]
       /\ calls' = << [fn |-> "client_sync",
                       args |-> <<th.server, th.filter, th.since, th.room_id,
                                  th.token>>,
                       ans |-> None] >>
       /\ Observe("thread", EMPTY, EMPTY, Ret("unit", EMPTY))
       /\ UNCHANGED <<fs, dict, self, panicked, faults, HOSTED_MODE, vault>>

Thread ==
    /\ ~panicked
    /\ \E i \in 1..Len(threads), answer \in Options(Cursors \X Messages) :
          client_sync_thread(i, answer)

Next ==
    \/ New
    \/ Set
    \/ Unset
    \/ Get
    \/ GetOr
    \/ Login
    \/ LoginModal
    \/ GetRoomId
    \/ RoomModal
    \/ GetFilter
    \/ Listen
    \/ ListenOver
    \/ Thread
    \/ VaultStart
    \/ SetMode
    \/ Input
    \/ Nav

Spec == Init /\ [][Next]_vars

(* The ConfigStore alone: the caller's set, unset, get and get_or. *)
NextStore ==
    \/ New
    \/ Set
    \/ Unset
    \/ Get
    \/ GetOr

SpecStore == Init /\ [][NextStore]_vars

(* The sync loop: login, the room edit, listen, listen_over and the        *)
(* spawned threads.                                                         *)
NextSync ==
    \/ Login
    \/ RoomModal
    \/ Listen
    \/ ListenOver
    \/ Thread

SpecSync == Init /\ [][NextSync]_vars

(* The sync loop with the threads scheduled: a spawned thread runs to its   *)
(* end. Nothing obliges the caller to call anything.                        *)
FairSync == SpecSync /\ WF_vars(Thread)

(* The room resolver: the caller's set and unset, the room edit and         *)
(* get_room_id.                                                             *)
NextRoom ==
    \/ Set
    \/ Unset
    \/ RoomModal
    \/ GetRoomId

SpecRoom == Init /\ [][NextRoom]_vars

(* The session manager: login, the credential edit, and the room edit,      *)
(* get_room_id and listen that use the session.                             *)
NextSession ==
    \/ Login
    \/ LoginModal
    \/ RoomModal
    \/ GetRoomId
    \/ Listen

SpecSession == Init /\ [][NextSession]_vars

(* The filter resolver: login (for the token), the room edit, get_room_id   *)
(* and get_filter.                                                          *)
NextFilter ==
    \/ Login
    \/ RoomModal
    \/ GetRoomId
    \/ GetFilter

SpecFilter == Init /\ [][NextFilter]_vars

(* The vault list UI. *)
NextVault ==
    \/ VaultStart
    \/ SetMode
    \/ Input
    \/ Nav

SpecVault == Init /\ [][NextVault]_vars

(* The sync loop over restarts of the process. *)
NextRestart ==
    \/ New
    \/ Login
    \/ RoomModal
    \/ Listen
    \/ ListenOver

SpecRestart == Init /\ [][NextRestart]_vars

-----------------------------------------------------------------------------
(* What the last step was. *)

Did(name) == op'.name = name
Reserved(key) == Len(key) >= 2 /\ key[1] = "_" /\ key[2] = "_"
Stored(key) == key \in DOMAIN fs
ObjectAndStore == <<fs, dict, self>>

-----------------------------------------------------------------------------
(* SyncLoop claims. *)

(* C1: in every reachable state at most one poll cycle is in flight (no two *)
(* spawned threads are alive at once).                                      *)
C1_AtMostOneCycle == Len(threads) <= 1

(* C2: listen() called while the listening flag is true is a no-op: no      *)
(* thread is spawned, no Transport call is issued, and the object and the   *)
(* files are as before.                                                     *)
C2_ListenWhileListening ==
    [][ (Did("listen") /\ self.listening) =>
          /\ ret'.tag = "already_listening"
          /\ calls' = << >>
          /\ threads' = threads
          /\ ObjectAndStore' = ObjectAndStore ]_vars

(* A second listen() has found the flag set by the first, whose cycle is    *)
(* the one in flight.                                                       *)
C2_Witness ==
    /\ op.name = "listen"
    /\ ret.tag = "already_listening"
    /\ self.listening
    /\ Len(threads) = 1

(* C3: listen_over with a non-empty cursor, the session logged in and the   *)
(* network there, calls listen() again, and with room id and filter         *)
(* resolved a new cycle is spawned and the flag is true again; logged out   *)
(* or without network nothing is restarted.                                 *)
C3_RestartOnCursor ==
    [][ (Did("listen_over") /\ op'.value # EMPTY) =>
          IF self.logged_in /\ (HOSTED_MODE \/ self.wifi_connected)
          THEN /\ ret'.tag \in {"no_room", "no_filter", "started"}
               /\ (self.room_id # EMPTY /\ self.filter # EMPTY) =>
                     /\ ret'.tag = "started"
                     /\ self'.listening
                     /\ Len(threads') = Len(threads) + 1
          ELSE /\ ret'.tag = "no_restart"
               /\ ~self'.listening
               /\ threads' = threads
               /\ calls' = << >> ]_vars

(* listen_over with a cursor has restarted the loop. *)
C3_Witness ==
    /\ op.name = "listen_over"
    /\ op.value # EMPTY
    /\ ret.tag = "started"
    /\ self.listening
    /\ self.since = op.value

(* C4: after listen_over("") no poll cycle is in flight, nothing is         *)
(* restarted, and the persisted and the cached cursor are as before.        *)
C4_EmptyCursorStops ==
    [][ (Did("listen_over") /\ op'.value = EMPTY) =>
          /\ threads' = << >>
          /\ calls' = << >>
          /\ fs' = fs
          /\ self'.since = self.since ]_vars

(* C5: listen_over clears the flag first: the listen() it calls never finds *)
(* it set, and when no cycle was restarted the flag is false afterwards.    *)
C5_FlagCleared ==
    [][ Did("listen_over") =>
          /\ ret'.tag # "already_listening"
          /\ ret'.tag # "started" => ~self'.listening ]_vars

(* listen_over has returned without a restart while a cycle spawned by an   *)
(* earlier listen() is alive, and the flag is false.                        *)
C5_Witness ==
    /\ op.name = "listen_over"
    /\ ret.tag \in {"empty_cursor", "no_restart", "no_room", "no_filter"}
    /\ Len(threads) > 0
    /\ ~self.listening

(* C6: a cycle started by listen() eventually reports back: the flag that   *)
(* listen() set eventually becomes false.                                   *)
C6_CycleReports == self.listening ~> ~self.listening

-----------------------------------------------------------------------------
(* ConfigStore claims. *)

(* What get(key) returns with the files being files. *)
GetIn(files, key) == get([fs |-> files], key).opt

C8_ReservedDenied ==
    [][ ((Did("set") \/ Did("unset")) /\ Reserved(op'.key)) =>
          /\ ret'.tag = "PermissionDenied"
          /\ ObjectAndStore' = ObjectAndStore ]_vars

(* unset of a reserved key has been refused, with files in the store. *)
C8_Witness ==
    /\ op.name = "unset"
    /\ op.key = RESERVED_KEY
    /\ ret.tag = "PermissionDenied"
    /\ DOMAIN fs # {}

(* C9: get of a key that is not stored returns None, not an error; get_or   *)
(* then returns the default; neither changes the files or the object.       *)
C9_GetMissing ==
    [][ /\ (Did("get") /\ ~Stored(op'.key)) => ret' = Ret("None", EMPTY)
        /\ (Did("get_or") /\ ~Stored(op'.key)) => ret' = Ret("string", op'.value)
        /\ (Did("get") \/ Did("get_or")) => ObjectAndStore' = ObjectAndStore ]_vars

(* get_or has returned a non-empty default for a key that is not stored,    *)
(* other keys being stored.                                                 *)
C9_Witness ==
    /\ op.name = "get_or"
    /\ ~Stored(op.key)
    /\ op.value # EMPTY
    /\ ret.val = op.value
    /\ DOMAIN fs # {}

-----------------------------------------------------------------------------
(* RoomResolver claims. *)

(* C10: after a confirmed room edit, room id, filter and cursor are all     *)
(* three absent from the store and empty in the object.                     *)
C10_RoomEditClearsAll ==
    (op.name = "room_modal" /\ ret.tag = "confirmed") =>
        /\ ~Stored(ROOM_ID_KEY) /\ ~Stored(FILTER_KEY) /\ ~Stored(SINCE_KEY)
        /\ self.room_id = EMPTY /\ self.filter = EMPTY /\ self.since = EMPTY

(* The string stored under key with the files being files, empty when      *)
(* there is none.                                                           *)
ValueIn(files, key) == get_or([fs |-> files], key, EMPTY)

(* The room name and the room domain as configured: cached and stored. *)
RoomConfig == <<self.room_name, self.room_domain,
                ValueIn(fs, ROOM_NAME_KEY), ValueIn(fs, ROOM_DOMAIN_KEY)>>

(* C11: a step of any operation that changes the room name or the room      *)
(* domain leaves room id, filter and cursor empty, cached and stored: a     *)
(* non-empty one belongs to the room as it is configured now.               *)
C11_RoomChangeInvalidates ==
    [][ RoomConfig' # RoomConfig =>
          /\ self'.room_id = EMPTY /\ self'.filter = EMPTY /\ self'.since = EMPTY
          /\ ValueIn(fs', ROOM_ID_KEY) = EMPTY
          /\ ValueIn(fs', FILTER_KEY) = EMPTY
          /\ ValueIn(fs', SINCE_KEY) = EMPTY ]_vars

(* C12: get_room_id() with a room id cached returns true, calls Transport   *)
(* for nothing and leaves the files and the object as they were, so that a  *)
(* second call finds the same and does the same.                            *)
C12_CachedRoomId ==
    [][ (Did("get_room_id") /\ self.room_id # EMPTY) =>
          /\ ret'.tag = "true"
          /\ calls' = << >>
          /\ ObjectAndStore' = ObjectAndStore ]_vars

(* get_room_id() has returned true without a lookup, on a room id that a    *)
(* lookup resolved for a configured room.                                   *)
C12_Witness ==
    /\ op.name = "get_room_id"
    /\ ret.tag = "true"
    /\ calls = << >>
    /\ self.room_id \in RoomIds
    /\ self.room_name # EMPTY

(* The room name, the room domain is unset: nothing is cached for it, or    *)
(* nothing is stored under its key.                                         *)
RoomNameUnset == self.room_name = EMPTY \/ ValueIn(fs, ROOM_NAME_KEY) = EMPTY
RoomDomainUnset == self.room_domain = EMPTY \/ ValueIn(fs, ROOM_DOMAIN_KEY) = EMPTY

(* C13: get_room_id() with no room id cached and the room name or the room  *)
(* domain unset returns false, calls Transport for nothing and leaves the   *)
(* files and the object as they were.                                       *)
C13_FailFast ==
    [][ (Did("get_room_id") /\ self.room_id = EMPTY
            /\ (RoomNameUnset \/ RoomDomainUnset)) =>
          /\ ret'.tag = "false"
          /\ calls' = << >>
          /\ ObjectAndStore' = ObjectAndStore ]_vars

(* The lookup that the last operation made was answered with an id, with    *)
(* nothing.                                                                 *)
LookupAnswered == calls # << >> /\ calls[1].fn = "get_room_id" /\ calls[1].ans.some
LookupFailed == calls # << >> /\ calls[1].fn = "get_room_id" /\ ~calls[1].ans.some

(* C14: get_room_id() with room name and domain set and no room id cached,  *)
(* whose lookup is answered with an id, returns true with that id stored    *)
(* under the room-id key and cached.                                        *)
C14_ResolvedPersisted ==
    [][ (Did("get_room_id") /\ self.room_id = EMPTY /\ self.room_name # EMPTY
            /\ self.room_domain # EMPTY /\ LookupAnswered') =>
          /\ ret'.tag = "true"
          /\ ValueIn(fs', ROOM_ID_KEY) = calls'[1].ans.val
          /\ self'.room_id = calls'[1].ans.val ]_vars

(* C15: get_room_id() whose lookup fails returns false and leaves the files *)
(* and the object as they were: the room id stays empty, nothing is         *)
(* written.                                                                 *)
C15_FailedLookup ==
    [][ (Did("get_room_id") /\ LookupFailed') =>
          /\ ret'.tag = "false"
          /\ self'.room_id = EMPTY
          /\ ObjectAndStore' = ObjectAndStore ]_vars

(* A lookup for a configured room has failed, with files in the store. *)
C15_Witness ==
    /\ op.name = "get_room_id"
    /\ ret.tag = "false"
    /\ LookupFailed
    /\ Stored(ROOM_NAME_KEY)
    /\ ~Stored(ROOM_ID_KEY)

-----------------------------------------------------------------------------
(* SessionManager claims. *)

(* The last operation called fn and was answered with something; what it    *)
(* was answered with.                                                       *)
Answered(cs, fn) == \E i \in 1..Len(cs) : cs[i].fn = fn /\ cs[i].ans.some
AnswerOf(cs, fn) == cs[CHOOSE i \in 1..Len(cs) : cs[i].fn = fn].ans.val
Called(cs, fn) == \E i \in 1..Len(cs) : cs[i].fn = fn

(* The calls of fn among cs, as positions. *)
CallsOf(cs, fn) == { i \in 1..Len(cs) : cs[i].fn = fn }

(* C16: login() with a token in the store that the identity check accepts   *)
(* returns true, logged in, with that token kept in memory and in the       *)
(* store, and asks neither for the login type nor to authenticate.          *)
C16_CachedTokenLogin ==
    [][ (Did("login") /\ ValueIn(fs, TOKEN_KEY) # EMPTY
            /\ Answered(calls', "whoami")) =>
          /\ ret'.tag = "true"
          /\ self'.logged_in
          /\ self'.token = ValueIn(fs, TOKEN_KEY)
          /\ ValueIn(fs', TOKEN_KEY) = ValueIn(fs, TOKEN_KEY)
          /\ self'.user_id = AnswerOf(calls', "whoami")
          /\ ~Called(calls', "get_login_type")
          /\ ~Called(calls', "authenticate_user") ]_vars

(* login() has succeeded by the identity check alone, on a token that an    *)
(* earlier login() stored.                                                  *)
C16_Witness ==
    /\ op.name = "login"
    /\ ret.tag = "true"
    /\ Len(calls) = 1
    /\ calls[1].fn = "whoami"
    /\ calls[1].args[2] \in Tokens
    /\ self.token \in Tokens
    /\ self.logged_in

(* C17: login() without a usable token, the server supporting password      *)
(* login and authenticate answering a token t, returns true, logged in,     *)
(* with t stored under the token key.                                       *)
C17_PasswordLoginPersists ==
    [][ (Did("login") /\ ~Answered(calls', "whoami")
            /\ Answered(calls', "get_login_type")
            /\ Answered(calls', "authenticate_user")) =>
          /\ ret'.tag = "true"
          /\ self'.logged_in
          /\ ValueIn(fs', TOKEN_KEY) = AnswerOf(calls', "authenticate_user") ]_vars

(* C18: after a login() that returned false the session is not logged in    *)
(* and holds no token in memory.                                            *)
C18_FailedLoginDiscardsToken ==
    (op.name = "login" /\ ret.tag = "false") =>
        (~self.logged_in /\ self.token = EMPTY)

(* The token a Transport call was made with. *)
CallToken(c) ==
    CASE c.fn = "whoami" -> c.args[2]
      [] c.fn = "get_room_id" -> c.args[3]
      [] c.fn = "get_filter" -> c.args[2]
      [] c.fn = "client_sync" -> c.args[5]
      [] OTHER -> EMPTY

(* C19: a confirmed credential edit leaves the session logged out with no   *)
(* token in memory or in the store, and the operation that follows it, if   *)
(* it is not a login(), starts no poll cycle and makes no Transport call    *)
(* with a token.                                                            *)
C19_EditForcesReauthentication ==
    [][ /\ (Did("login_modal") /\ ret'.tag = "confirmed") =>
              /\ ~self'.logged_in
              /\ self'.token = EMPTY
              /\ ValueIn(fs', TOKEN_KEY) = EMPTY
        /\ (op.name = "login_modal" /\ ret.tag = "confirmed" /\ ~Did("login")) =>
              /\ Len(threads') <= Len(threads)
              /\ \A i \in 1..Len(calls') : CallToken(calls'[i]) = EMPTY ]_vars

(* C20: after a confirmed credential edit the token key is not in the       *)
(* store, the submitted user name and user domain are, and the user id      *)
(* stored is "@" + user name + ":" + user domain of the values stored.      *)
C20_EditPersists ==
    (op.name = "login_modal" /\ ret.tag = "confirmed") =>
        /\ ~Stored(TOKEN_KEY)
        /\ Stored(USER_NAME_KEY) /\ Stored(USER_DOMAIN_KEY) /\ Stored(USER_ID_KEY)
        /\ fs[USER_NAME_KEY] \in UserNames
        /\ fs[USER_DOMAIN_KEY] \in UserDomains
        /\ fs[USER_ID_KEY] = format_user_id(fs[USER_NAME_KEY], fs[USER_DOMAIN_KEY])

C30_MaskedPassword ==
    [][ (Did("login_modal") /\ ret'.tag = "confirmed" /\ Stored(PASSWORD_KEY)) =>
          /\ PASSWORD_KEY \in DOMAIN fs'
          /\ op'.value # HIDE_STR => fs'[PASSWORD_KEY] = op'.value
          /\ op'.value = HIDE_STR => fs'[PASSWORD_KEY] = fs[PASSWORD_KEY]
          /\ fs'[PASSWORD_KEY] # HIDE_STR ]_vars

(* The edit has come back with the placeholder over a stored password, and  *)
(* the password is still the stored one.                                    *)
C30_Witness ==
    /\ op.name = "login_modal"
    /\ ret.tag = "confirmed"
    /\ op.value = HIDE_STR
    /\ Stored(PASSWORD_KEY)
    /\ fs[PASSWORD_KEY] \in Passwords \ {HIDE_STR}

-----------------------------------------------------------------------------
(* SyncLoop claims: listen(). *)

(* C21: listen() on a session that is not logged in does nothing: the flag  *)
(* is as it was, no thread is spawned, no Transport call is issued, and the *)
(* files and the object are as before.                                      *)
C21_ListenLoggedOut ==
    [][ (Did("listen") /\ ~self.logged_in) =>
          /\ ret'.tag \in {"not_logged_in", "already_listening"}
          /\ self'.listening = self.listening
          /\ threads' = threads
          /\ calls' = << >>
          /\ ObjectAndStore' = ObjectAndStore ]_vars

(* listen() has refused a session that is logged out and not listening,     *)
(* whose room is configured.                                                *)
C21_Witness ==
    /\ op.name = "listen"
    /\ ret.tag = "not_logged_in"
    /\ ~self.logged_in
    /\ ~self.listening
    /\ self.room_name # EMPTY
    /\ self.room_domain # EMPTY

(* C22: listen() on a logged-in session that is not listening resolves the  *)
(* room before the filter, each at most once; a room that is not resolved   *)
(* leaves the filter unasked; a room or a filter that is not resolved       *)
(* leaves the flag false and spawns nothing; a thread is spawned only with  *)
(* both resolved.                                                           *)
C22_RoomThenFilter ==
    [][ (Did("listen") /\ self.logged_in /\ ~self.listening) =>
          LET room_ok == self.room_id # EMPTY \/ Answered(calls', "get_room_id")
              filter_ok == self.filter # EMPTY \/ Answered(calls', "get_filter")
          IN /\ Cardinality(CallsOf(calls', "get_room_id")) <= 1
             /\ Cardinality(CallsOf(calls', "get_filter")) <= 1
             /\ \A i \in CallsOf(calls', "get_room_id") :
                   \A j \in CallsOf(calls', "get_filter") : i < j
             /\ ~room_ok => ~Called(calls', "get_filter")
             /\ ~(room_ok /\ filter_ok) => (~self'.listening /\ threads' = threads)
             /\ (room_ok /\ filter_ok) =>
                   /\ self'.listening
                   /\ Len(threads') = Len(threads) + 1
                   /\ SubSeq(threads', 1, Len(threads)) = threads ]_vars

(* listen() has given up on a room whose lookup failed, the filter not      *)
(* being cached either.                                                     *)
C22_Witness ==
    /\ op.name = "listen"
    /\ ret.tag = "no_room"
    /\ self.logged_in
    /\ Len(calls) = 1
    /\ calls[1].fn = "get_room_id"
    /\ self.filter = EMPTY
    /\ ~self.listening

(* C23: a session object constructed over a store that holds room name,     *)
(* room domain, room id, filter and cursor has them in its caches, so that  *)
(* the cycle the next listen() spawns submits the stored cursor, room id    *)
(* and filter.                                                              *)
C23_RestartReloads ==
    [][ /\ Did("new") =>
              /\ self'.room_name = ValueIn(fs', ROOM_NAME_KEY)
              /\ self'.room_domain = ValueIn(fs', ROOM_DOMAIN_KEY)
              /\ self'.room_id = ValueIn(fs', ROOM_ID_KEY)
              /\ self'.filter = ValueIn(fs', FILTER_KEY)
              /\ self'.since = ValueIn(fs', SINCE_KEY)
        /\ (Did("listen") /\ Len(threads') > Len(threads)) =>
              LET th == threads'[Len(threads')]
              IN /\ th.since = ValueIn(fs', SINCE_KEY)
                 /\ th.room_id = ValueIn(fs', ROOM_ID_KEY)
                 /\ th.filter = ValueIn(fs', FILTER_KEY) ]_vars

(* C27: listen_over with a non-empty cursor leaves that cursor stored under *)
(* the cursor key and cached, restart or not, and the cycle it restarts     *)
(* submits that cursor.                                                     *)
C27_CursorPersisted ==
    [][ (Did("listen_over") /\ op'.value # EMPTY) =>
          /\ ValueIn(fs', SINCE_KEY) = op'.value
          /\ self'.since = op'.value
          /\ Len(threads') > Len(threads) =>
                threads'[Len(threads')].since = op'.value ]_vars

(* C28: a spawned cycle submits the strings cloned when it was spawned and  *)
(* changes neither the object nor the files; no operation changes the       *)
(* strings of a cycle that is alive.                                        *)
C28_CycleOnSnapshot ==
    [][ /\ Did("thread") =>
              /\ ObjectAndStore' = ObjectAndStore
              /\ \E i \in 1..Len(threads) :
                    /\ calls'[1].args = <<threads[i].server, threads[i].filter,
                                          threads[i].since, threads[i].room_id,
                                          threads[i].token>>
                    /\ threads' = [j \in 1..(Len(threads) - 1) |->
                                      IF j < i THEN threads[j] ELSE threads[j + 1]]
        /\ ~Did("thread") => SubSeq(threads', 1, Len(threads)) = threads ]_vars

(* A cycle has submitted the cursor and the room id of its spawn after the  *)
(* session's cursor was changed and a room id was there.                    *)
C28_Witness ==
    /\ op.name = "thread"
    /\ calls[1].fn = "client_sync"
    /\ calls[1].args[3] # self.since
    /\ calls[1].args[4] # EMPTY

-----------------------------------------------------------------------------
(* ConfigStore claims: the caches. *)

(* The cached fields of me are what files hold under their keys, empty for  *)
(* a key that is absent (user_domain: empty or its default).                *)
CacheMatchesStore(me, files) ==
    /\ me.room_id = ValueIn(files, ROOM_ID_KEY)
    /\ me.room_name = ValueIn(files, ROOM_NAME_KEY)
    /\ me.room_domain = ValueIn(files, ROOM_DOMAIN_KEY)
    /\ me.filter = ValueIn(files, FILTER_KEY)
    /\ me.since = ValueIn(files, SINCE_KEY)
    /\ me.user_name = ValueIn(files, USER_NAME_KEY)
    /\ me.user_id = ValueIn(files, USER_ID_KEY)
    /\ \/ me.user_domain = ValueIn(files, USER_DOMAIN_KEY)
       \/ USER_DOMAIN_KEY \notin DOMAIN files /\ me.user_domain = DOMAIN_MATRIX

(* The operations that set or unset keys. *)
Mutators ==
    { "set", "unset", "login", "login_modal", "room_modal", "get_room_id",
      "get_filter", "listen", "listen_over" }

(* C24: after an operation whose sets and unsets all succeeded, every       *)
(* cached field is what the store holds under its key, or empty (default)   *)
(* for an absent key.                                                       *)
C24_StoreIsTruth ==
    [][ (op'.name \in Mutators /\ faults' = faults
            /\ ret'.tag \notin {"PermissionDenied", "IoError", "panic"}) =>
          CacheMatchesStore(self', fs') ]_vars

(* C26: set and unset change the cache only after the store: a set or an    *)
(* unset that returns an error leaves the object as it was, and one that    *)
(* changes the object has succeeded and left the store holding the value    *)
(* (set) or without the key (unset). The cache never runs ahead of the      *)
(* store; a process that dies after the write restarts with an empty cache  *)
(* (New).                                                                   *)
C26_StoreBeforeCache ==
    [][ (Did("set") \/ Did("unset")) =>
          /\ ret'.tag # "Ok" => self' = self
          /\ self' # self =>
                /\ ret'.tag = "Ok"
                /\ Did("set") => GetIn(fs', op'.key) = Some(op'.value)
                /\ Did("unset") => GetIn(fs', op'.key) = None ]_vars

(* set has failed in write_all: the file is created and the cached field    *)
(* has not taken the value.                                                 *)
C26_Witness ==
    /\ op.name = "set"
    /\ ret.tag = "IoError"
    /\ op.key = ROOM_NAME_KEY
    /\ Stored(ROOM_NAME_KEY)
    /\ op.value # EMPTY
    /\ self.room_name # op.value

-----------------------------------------------------------------------------
(* Failure claims. *)

(* C25: no operation ends the process: no state is reached in which an      *)
(* expect() has panicked.                                                   *)
C25_NoPanic == ~panicked

-----------------------------------------------------------------------------
(* FilterResolver claims. *)

(* C31: get_filter() with no filter cached and no room id returns false,    *)
(* calls Transport for nothing and leaves the files and the object as they  *)
(* were.                                                                    *)
C31_FilterFailFast ==
    [][ (Did("get_filter") /\ self.filter = EMPTY /\ self.room_id = EMPTY) =>
          /\ ret'.tag = "false"
          /\ calls' = << >>
          /\ ObjectAndStore' = ObjectAndStore ]_vars

(* C32: get_filter() with a filter cached returns true with no call and     *)
(* nothing changed; with none cached and a room id, a resolution answered   *)
(* with a filter id returns true with that id stored under the filter key   *)
(* and cached, and one answered with nothing returns false with the filter  *)
(* still empty.                                                             *)
C32_FilterResolution ==
    [][ Did("get_filter") =>
          /\ self.filter # EMPTY =>
                (ret'.tag = "true" /\ calls' = << >>
                    /\ ObjectAndStore' = ObjectAndStore)
          /\ (self.filter = EMPTY /\ self.room_id # EMPTY
                  /\ Answered(calls', "get_filter")) =>
                /\ ret'.tag = "true"
                /\ ValueIn(fs', FILTER_KEY) = AnswerOf(calls', "get_filter")
                /\ self'.filter = AnswerOf(calls', "get_filter")
          /\ (self.filter = EMPTY /\ self.room_id # EMPTY
                  /\ ~Answered(calls', "get_filter")) =>
                (ret'.tag = "false" /\ self'.filter = EMPTY) ]_vars

-----------------------------------------------------------------------------
(* unset claims. *)

(* C33, as stated: unset of a key not beginning with "__" returns Ok,       *)
(* whether the key has a file or not, and leaves the key without a file.    *)
C33_UnsetAlwaysSucceeds ==
    (op.name = "unset" /\ ~Reserved(op.key)) =>
        (ret.tag = "Ok" /\ GetIn(fs, op.key) = None)

(* C33, amended: unset of a key not beginning with "__" returns Ok, whether *)
(* the key has a file or not, unless a file operation fails; whenever it    *)
(* returns Ok a following get reports the key absent, and an unset of a key *)
(* that has no file (a second unset) leaves the files as they are.          *)
C33_UnsetIdempotent ==
    [][ (Did("unset") /\ ~Reserved(op'.key)) =>
          /\ faults' = faults => ret'.tag = "Ok"
          /\ ret'.tag = "Ok" => GetIn(fs', op'.key) = None
          /\ ~Stored(op'.key) => fs' = fs ]_vars

(* unset has returned Ok for a key that had no file, with other files in    *)
(* the store.                                                               *)
C33_Witness ==
    /\ op.name = "unset"
    /\ op.key = OTHER_KEY
    /\ ret.tag = "Ok"
    /\ Stored(PASSWORD_KEY)
    /\ ~Stored(OTHER_KEY)

-----------------------------------------------------------------------------
(* Prompt claims. *)

(* C34: a login_modal or room_modal whose form is cancelled leaves the      *)
(* files and the object (token, credentials, user id, room name and domain, *)
(* room id, filter, cursor) as they were, and calls Transport for nothing.  *)
C34_CancelChangesNothing ==
    [][ ((Did("login_modal") \/ Did("room_modal")) /\ ret'.tag = "cancelled") =>
          /\ ObjectAndStore' = ObjectAndStore
          /\ threads' = threads
          /\ calls' = << >> ]_vars

(* A room edit has been cancelled on a session that holds a resolved room   *)
(* id and a token.                                                          *)
C34_Witness ==
    /\ op.name = "room_modal"
    /\ ret.tag = "cancelled"
    /\ Stored(ROOM_ID_KEY)
    /\ self.room_id # EMPTY
    /\ Stored(TOKEN_KEY)

-----------------------------------------------------------------------------
(* Claims on the session and the poll cycles together. *)

(* C35: while a poll cycle is outstanding the listening flag is true, also  *)
(* when listen_over or a room edit is invoked while the cycle still runs.   *)
C35_FlagWhileCycle ==
    Len(threads) > 0 => self.listening

(* C36: every poll cycle that listen() starts (also from listen_over) is    *)
(* spawned with a non-empty room id and a non-empty filter id, by a session *)
(* that is logged in.                                                       *)
C36_CycleArguments ==
    [][ Len(threads') > Len(threads) =>
          /\ threads'[Len(threads')].room_id # EMPTY
          /\ threads'[Len(threads')].filter # EMPTY
          /\ self'.logged_in ]_vars

(* C37: a listen_over with a cursor that follows the end of a poll cycle    *)
(* whose room id is not the session's room id any more (the room was edited *)
(* while the cycle was in flight) stores no cursor and starts no cycle.     *)
C37_CursorOfItsRoom ==
    [][ ( /\ op.name = "thread"
          /\ Called(calls, "client_sync")
          /\ calls[1].args[4] # self.room_id
          /\ Did("listen_over")
          /\ op'.value # EMPTY ) =>
          /\ GetIn(fs', SINCE_KEY) = GetIn(fs, SINCE_KEY)
          /\ self'.since = self.since
          /\ threads' = threads ]_vars

(* C38: a session that is logged in holds a non-empty token, and a login()  *)
(* that returns true leaves in memory the token it validated (the stored    *)
(* one) or obtained from authenticate_user.                                 *)
C38_TokenInMemory ==
    [][ /\ self'.logged_in => self'.token # EMPTY
        /\ (Did("login") /\ ret'.tag = "true") =>
              self'.token = IF Answered(calls', "authenticate_user")
                            THEN AnswerOf(calls', "authenticate_user")
                            ELSE ValueIn(fs, TOKEN_KEY) ]_vars

-----------------------------------------------------------------------------
(* Vault claims. *)

(* C39: after any sequence of set_mode, input and nav no index computation  *)
(* of the vault has overflowed, and selection_index is an index of          *)
(* filtered_list (0 when the list is empty).                                *)
C39_SelectionValid ==
    vault.started =>
        /\ ~vault.overflowed
        /\ IF vault.ux.filtered_list = << >>
           THEN vault.ux.selection_index = 0
           ELSE vault.ux.selection_index \in
                    0..(Len(vault.ux.filtered_list) - 1)

====
